---- MODULE Spec2Model ----
(***************************************************************************)
(* Model of the chat component of YewChat                                  *)
(* (src/YewChat/src/components/chat.rs): the wire types and their serde    *)
(* derives, Chat::create, Chat::update (HandleMsg, SubmitMessage), the    *)
(* message list of Chat::view and the teardown of the component.  Spec is  *)
(* the session; SpecCodec encodes and decodes envelopes on their own.      *)
(*                                                                         *)
(* Rust Strings are TLA+ strings.  serde_json's text parser is the table   *)
(* ParseJson over the wire texts the model uses; what the derives of       *)
(* chat.rs add on top (field names, casing, Option fields, ignored unknown *)
(* fields) is computed over the parsed JSON value.  A panic (unwrap on     *)
(* Err/None) aborts the wasm instance: phase "panicked", nothing runs any  *)
(* more.                                                                   *)
(***************************************************************************)
EXTENDS Integers, Sequences, FiniteSets, TLC

\* ---------------------------------------------------------------- bounds
\* inbound frames delivered to update over a session
MaxFrames == 3
\* SubmitMessage events handled over a session
MaxSubmits == 1

\* ------------------------------------------------------------ JSON values
\* a JSON value: t is its type, s the content of a string or number, items
\* the elements of an array (k = "") or the members of an object (k = key)
Member(k, v) == [k |-> k, v |-> v]
JNull == [t |-> "null", s |-> "", items |-> <<>>]
JStr(s) == [t |-> "str", s |-> s, items |-> <<>>]
JNum(s) == [t |-> "num", s |-> s, items |-> <<>>]
JArr(elems) == [t |-> "arr", s |-> "", items |-> [i \in DOMAIN elems |-> Member("", elems[i])]]
JObj(members) == [t |-> "obj", s |-> "", items |-> members]

\* ------------------------------------------------------------- wire texts
\* payloads: the text carried in the data field of a Message envelope
PayAliceHi == "{\"from\":\"alice\",\"message\":\"hi\"}"
PayAliceGif == "{\"from\":\"alice\",\"message\":\"cat.gif\"}"
PayBobYo == "{\"from\":\"bob\",\"message\":\"yo\",\"time\":5}"
PaySpecNamed == "{\"from\":\"alice\",\"text\":\"hi\"}"

\* inbound frames
FrUsersAB == "{\"messageType\":\"users\",\"dataArray\":[\"alice\",\"bob\"]}"
FrUsersB == "{\"messageType\":\"users\",\"dataArray\":[\"bob\"],\"data\":null}"
FrUsersAA == "{\"messageType\":\"users\",\"dataArray\":[\"alice\",\"alice\"]}"
FrUsersAbsent == "{\"messageType\":\"users\"}"
FrRegister == "{\"messageType\":\"register\",\"data\":\"bob\"}"
FrRegisterBoth == "{\"messageType\":\"register\",\"dataArray\":[\"alice\"],\"data\":\"carol\"}"
FrMsgAliceHi == "{\"messageType\":\"message\",\"data\":\"{\\\"from\\\":\\\"alice\\\",\\\"message\\\":\\\"hi\\\"}\"}"
FrMsgAliceGif == "{\"messageType\":\"message\",\"data\":\"{\\\"from\\\":\\\"alice\\\",\\\"message\\\":\\\"cat.gif\\\"}\"}"
FrMsgBobYo == "{\"messageType\":\"message\",\"data\":\"{\\\"from\\\":\\\"bob\\\",\\\"message\\\":\\\"yo\\\",\\\"time\\\":5}\"}"
FrMsgSpecNamed == "{\"messageType\":\"message\",\"data\":\"{\\\"from\\\":\\\"alice\\\",\\\"text\\\":\\\"hi\\\"}\"}"
FrMsgNoData == "{\"messageType\":\"message\"}"
FrMsgPlain == "{\"messageType\":\"message\",\"data\":\"hi\"}"
FrUnknownTag == "{\"messageType\":\"ping\"}"
FrBadType == "{\"messageType\":\"users\",\"dataArray\":5}"
FrUpperTag == "{\"messageType\":\"Users\",\"dataArray\":[\"bob\"]}"
FrSnakeCase == "{\"message_type\":\"users\",\"data_array\":[\"bob\"]}"
FrGarbage == "not json"

\* outbound frames, as serde_json::to_string writes them
OutRegisterCarol == "{\"messageType\":\"register\",\"dataArray\":null,\"data\":\"carol\"}"
OutMsgEmpty == "{\"messageType\":\"message\",\"dataArray\":null,\"data\":\"\"}"
OutMsgHi == "{\"messageType\":\"message\",\"dataArray\":null,\"data\":\"hi\"}"
OutMsgGif == "{\"messageType\":\"message\",\"dataArray\":null,\"data\":\"cat.gif\"}"

\* the serialized envelopes of the codec check, with the JSON value each is
EnvelopeTexts ==
    {
      <<"{\"messageType\":\"users\",\"dataArray\":null,\"data\":null}",
        JObj(<<Member("messageType", JStr("users")), Member("dataArray", JNull),
               Member("data", JNull)>>)>>,
      <<"{\"messageType\":\"users\",\"dataArray\":null,\"data\":\"\"}",
        JObj(<<Member("messageType", JStr("users")), Member("dataArray", JNull),
               Member("data", JStr(""))>>)>>,
      <<"{\"messageType\":\"users\",\"dataArray\":null,\"data\":\"hi\"}",
        JObj(<<Member("messageType", JStr("users")), Member("dataArray", JNull),
               Member("data", JStr("hi"))>>)>>,
      <<"{\"messageType\":\"users\",\"dataArray\":null,\"data\":\"say \\\"hi\\\"\"}",
        JObj(<<Member("messageType", JStr("users")), Member("dataArray", JNull),
               Member("data", JStr("say \"hi\""))>>)>>,
      <<"{\"messageType\":\"users\",\"dataArray\":[],\"data\":null}",
        JObj(<<Member("messageType", JStr("users")), Member("dataArray", JArr(<<>>)),
               Member("data", JNull)>>)>>,
      <<"{\"messageType\":\"users\",\"dataArray\":[],\"data\":\"\"}",
        JObj(<<Member("messageType", JStr("users")), Member("dataArray", JArr(<<>>)),
               Member("data", JStr(""))>>)>>,
      <<"{\"messageType\":\"users\",\"dataArray\":[],\"data\":\"hi\"}",
        JObj(<<Member("messageType", JStr("users")), Member("dataArray", JArr(<<>>)),
               Member("data", JStr("hi"))>>)>>,
      <<"{\"messageType\":\"users\",\"dataArray\":[],\"data\":\"say \\\"hi\\\"\"}",
        JObj(<<Member("messageType", JStr("users")), Member("dataArray", JArr(<<>>)),
               Member("data", JStr("say \"hi\""))>>)>>,
      <<"{\"messageType\":\"users\",\"dataArray\":[\"alice\",\"bob\"],\"data\":null}",
        JObj(<<Member("messageType", JStr("users")), Member("dataArray", JArr(<<JStr("alice"), JStr("bob")>>)),
               Member("data", JNull)>>)>>,
      <<"{\"messageType\":\"users\",\"dataArray\":[\"alice\",\"bob\"],\"data\":\"\"}",
        JObj(<<Member("messageType", JStr("users")), Member("dataArray", JArr(<<JStr("alice"), JStr("bob")>>)),
               Member("data", JStr(""))>>)>>,
      <<"{\"messageType\":\"users\",\"dataArray\":[\"alice\",\"bob\"],\"data\":\"hi\"}",
        JObj(<<Member("messageType", JStr("users")), Member("dataArray", JArr(<<JStr("alice"), JStr("bob")>>)),
               Member("data", JStr("hi"))>>)>>,
      <<"{\"messageType\":\"users\",\"dataArray\":[\"alice\",\"bob\"],\"data\":\"say \\\"hi\\\"\"}",
        JObj(<<Member("messageType", JStr("users")), Member("dataArray", JArr(<<JStr("alice"), JStr("bob")>>)),
               Member("data", JStr("say \"hi\""))>>)>>,
      <<"{\"messageType\":\"register\",\"dataArray\":null,\"data\":null}",
        JObj(<<Member("messageType", JStr("register")), Member("dataArray", JNull),
               Member("data", JNull)>>)>>,
      <<"{\"messageType\":\"register\",\"dataArray\":null,\"data\":\"\"}",
        JObj(<<Member("messageType", JStr("register")), Member("dataArray", JNull),
               Member("data", JStr(""))>>)>>,
      <<"{\"messageType\":\"register\",\"dataArray\":null,\"data\":\"hi\"}",
        JObj(<<Member("messageType", JStr("register")), Member("dataArray", JNull),
               Member("data", JStr("hi"))>>)>>,
      <<"{\"messageType\":\"register\",\"dataArray\":null,\"data\":\"say \\\"hi\\\"\"}",
        JObj(<<Member("messageType", JStr("register")), Member("dataArray", JNull),
               Member("data", JStr("say \"hi\""))>>)>>,
      <<"{\"messageType\":\"register\",\"dataArray\":[],\"data\":null}",
        JObj(<<Member("messageType", JStr("register")), Member("dataArray", JArr(<<>>)),
               Member("data", JNull)>>)>>,
      <<"{\"messageType\":\"register\",\"dataArray\":[],\"data\":\"\"}",
        JObj(<<Member("messageType", JStr("register")), Member("dataArray", JArr(<<>>)),
               Member("data", JStr(""))>>)>>,
      <<"{\"messageType\":\"register\",\"dataArray\":[],\"data\":\"hi\"}",
        JObj(<<Member("messageType", JStr("register")), Member("dataArray", JArr(<<>>)),
               Member("data", JStr("hi"))>>)>>,
      <<"{\"messageType\":\"register\",\"dataArray\":[],\"data\":\"say \\\"hi\\\"\"}",
        JObj(<<Member("messageType", JStr("register")), Member("dataArray", JArr(<<>>)),
               Member("data", JStr("say \"hi\""))>>)>>,
      <<"{\"messageType\":\"register\",\"dataArray\":[\"alice\",\"bob\"],\"data\":null}",
        JObj(<<Member("messageType", JStr("register")), Member("dataArray", JArr(<<JStr("alice"), JStr("bob")>>)),
               Member("data", JNull)>>)>>,
      <<"{\"messageType\":\"register\",\"dataArray\":[\"alice\",\"bob\"],\"data\":\"\"}",
        JObj(<<Member("messageType", JStr("register")), Member("dataArray", JArr(<<JStr("alice"), JStr("bob")>>)),
               Member("data", JStr(""))>>)>>,
      <<"{\"messageType\":\"register\",\"dataArray\":[\"alice\",\"bob\"],\"data\":\"hi\"}",
        JObj(<<Member("messageType", JStr("register")), Member("dataArray", JArr(<<JStr("alice"), JStr("bob")>>)),
               Member("data", JStr("hi"))>>)>>,
      <<"{\"messageType\":\"register\",\"dataArray\":[\"alice\",\"bob\"],\"data\":\"say \\\"hi\\\"\"}",
        JObj(<<Member("messageType", JStr("register")), Member("dataArray", JArr(<<JStr("alice"), JStr("bob")>>)),
               Member("data", JStr("say \"hi\""))>>)>>,
      <<"{\"messageType\":\"message\",\"dataArray\":null,\"data\":null}",
        JObj(<<Member("messageType", JStr("message")), Member("dataArray", JNull),
               Member("data", JNull)>>)>>,
      <<"{\"messageType\":\"message\",\"dataArray\":null,\"data\":\"\"}",
        JObj(<<Member("messageType", JStr("message")), Member("dataArray", JNull),
               Member("data", JStr(""))>>)>>,
      <<"{\"messageType\":\"message\",\"dataArray\":null,\"data\":\"hi\"}",
        JObj(<<Member("messageType", JStr("message")), Member("dataArray", JNull),
               Member("data", JStr("hi"))>>)>>,
      <<"{\"messageType\":\"message\",\"dataArray\":null,\"data\":\"say \\\"hi\\\"\"}",
        JObj(<<Member("messageType", JStr("message")), Member("dataArray", JNull),
               Member("data", JStr("say \"hi\""))>>)>>,
      <<"{\"messageType\":\"message\",\"dataArray\":[],\"data\":null}",
        JObj(<<Member("messageType", JStr("message")), Member("dataArray", JArr(<<>>)),
               Member("data", JNull)>>)>>,
      <<"{\"messageType\":\"message\",\"dataArray\":[],\"data\":\"\"}",
        JObj(<<Member("messageType", JStr("message")), Member("dataArray", JArr(<<>>)),
               Member("data", JStr(""))>>)>>,
      <<"{\"messageType\":\"message\",\"dataArray\":[],\"data\":\"hi\"}",
        JObj(<<Member("messageType", JStr("message")), Member("dataArray", JArr(<<>>)),
               Member("data", JStr("hi"))>>)>>,
      <<"{\"messageType\":\"message\",\"dataArray\":[],\"data\":\"say \\\"hi\\\"\"}",
        JObj(<<Member("messageType", JStr("message")), Member("dataArray", JArr(<<>>)),
               Member("data", JStr("say \"hi\""))>>)>>,
      <<"{\"messageType\":\"message\",\"dataArray\":[\"alice\",\"bob\"],\"data\":null}",
        JObj(<<Member("messageType", JStr("message")), Member("dataArray", JArr(<<JStr("alice"), JStr("bob")>>)),
               Member("data", JNull)>>)>>,
      <<"{\"messageType\":\"message\",\"dataArray\":[\"alice\",\"bob\"],\"data\":\"\"}",
        JObj(<<Member("messageType", JStr("message")), Member("dataArray", JArr(<<JStr("alice"), JStr("bob")>>)),
               Member("data", JStr(""))>>)>>,
      <<"{\"messageType\":\"message\",\"dataArray\":[\"alice\",\"bob\"],\"data\":\"hi\"}",
        JObj(<<Member("messageType", JStr("message")), Member("dataArray", JArr(<<JStr("alice"), JStr("bob")>>)),
               Member("data", JStr("hi"))>>)>>,
      <<"{\"messageType\":\"message\",\"dataArray\":[\"alice\",\"bob\"],\"data\":\"say \\\"hi\\\"\"}",
        JObj(<<Member("messageType", JStr("message")), Member("dataArray", JArr(<<JStr("alice"), JStr("bob")>>)),
               Member("data", JStr("say \"hi\""))>>)>> }

\* the JSON documents among the texts of the model
JsonTexts ==
    { <<PayAliceHi, JObj(<<Member("from", JStr("alice")), Member("message", JStr("hi"))>>)>>,
      <<PayAliceGif, JObj(<<Member("from", JStr("alice")), Member("message", JStr("cat.gif"))>>)>>,
      <<PayBobYo, JObj(<<Member("from", JStr("bob")), Member("message", JStr("yo")),
                         Member("time", JNum("5"))>>)>>,
      <<PaySpecNamed, JObj(<<Member("from", JStr("alice")), Member("text", JStr("hi"))>>)>>,
      <<FrUsersAB, JObj(<<Member("messageType", JStr("users")),
                          Member("dataArray", JArr(<<JStr("alice"), JStr("bob")>>))>>)>>,
      <<FrUsersB, JObj(<<Member("messageType", JStr("users")),
                         Member("dataArray", JArr(<<JStr("bob")>>)),
                         Member("data", JNull)>>)>>,
      <<FrUsersAA, JObj(<<Member("messageType", JStr("users")),
                          Member("dataArray", JArr(<<JStr("alice"), JStr("alice")>>))>>)>>,
      <<FrUsersAbsent, JObj(<<Member("messageType", JStr("users"))>>)>>,
      <<FrRegister, JObj(<<Member("messageType", JStr("register")), Member("data", JStr("bob"))>>)>>,
      <<FrRegisterBoth, JObj(<<Member("messageType", JStr("register")),
                               Member("dataArray", JArr(<<JStr("alice")>>)),
                               Member("data", JStr("carol"))>>)>>,
      <<FrMsgAliceHi, JObj(<<Member("messageType", JStr("message")), Member("data", JStr(PayAliceHi))>>)>>,
      <<FrMsgAliceGif, JObj(<<Member("messageType", JStr("message")), Member("data", JStr(PayAliceGif))>>)>>,
      <<FrMsgBobYo, JObj(<<Member("messageType", JStr("message")), Member("data", JStr(PayBobYo))>>)>>,
      <<FrMsgSpecNamed, JObj(<<Member("messageType", JStr("message")), Member("data", JStr(PaySpecNamed))>>)>>,
      <<FrMsgNoData, JObj(<<Member("messageType", JStr("message"))>>)>>,
      <<FrMsgPlain, JObj(<<Member("messageType", JStr("message")), Member("data", JStr("hi"))>>)>>,
      <<FrUnknownTag, JObj(<<Member("messageType", JStr("ping"))>>)>>,
      <<FrBadType, JObj(<<Member("messageType", JStr("users")), Member("dataArray", JNum("5"))>>)>>,
      <<FrUpperTag, JObj(<<Member("messageType", JStr("Users")),
                           Member("dataArray", JArr(<<JStr("bob")>>))>>)>>,
      <<FrSnakeCase, JObj(<<Member("message_type", JStr("users")),
                            Member("data_array", JArr(<<JStr("bob")>>))>>)>>,
      <<OutRegisterCarol, JObj(<<Member("messageType", JStr("register")),
                                 Member("dataArray", JNull), Member("data", JStr("carol"))>>)>>,
      <<OutMsgEmpty, JObj(<<Member("messageType", JStr("message")),
                            Member("dataArray", JNull), Member("data", JStr(""))>>)>>,
      <<OutMsgHi, JObj(<<Member("messageType", JStr("message")),
                         Member("dataArray", JNull), Member("data", JStr("hi"))>>)>>,
      <<OutMsgGif, JObj(<<Member("messageType", JStr("message")),
                          Member("dataArray", JNull), Member("data", JStr("cat.gif"))>>)>> }
    \cup EnvelopeTexts

\* serde_json's parser: the JSON value of a text, or an error for a text
\* that is not a JSON document ("hi", "", "not json", ...)
ParseJson(s) ==
    IF \E p \in JsonTexts : p[1] = s
    THEN [ok |-> TRUE, j |-> (CHOOSE p \in JsonTexts : p[1] = s)[2]]
    ELSE [ok |-> FALSE, j |-> JNull]

\* ------------------------------------------------------------ Rust values
None == [some |-> FALSE, v |-> ""]
Some(v) == [some |-> TRUE, v |-> v]
NoneVec == [some |-> FALSE, v |-> <<>>]

MsgTypes == {"Users", "Register", "Message"}

\* variant tags written as the variants are named
MsgTypesTag_Pascal(variant) == variant

\* #[serde(rename_all = "lowercase")] on MsgTypes
MsgTypesTag(variant) ==
    CASE variant = "Users" -> "users"
      [] variant = "Register" -> "register"
      [] variant = "Message" -> "message"

WebSocketMessage(message_type, data_array, data) ==
    [message_type |-> message_type, data_array |-> data_array, data |-> data]

MessageData(from, message) == [from |-> from, message |-> message]

UserProfile(name, avatar) == [name |-> name, avatar |-> avatar]

Ok(v) == [ok |-> TRUE, v |-> v]
ErrEnvelope == [ok |-> FALSE, v |-> WebSocketMessage("Users", NoneVec, None)]
ErrPayload == [ok |-> FALSE, v |-> MessageData("", "")]

\* ------------------------------------------------------- serde: decoding
\* positions of the members of object j whose key is k
Keys(j, k) == {i \in DOMAIN j.items : j.items[i].k = k}

Field(j, k) == j.items[CHOOSE i \in Keys(j, k) : TRUE].v

\* MsgTypes: a unit variant is the string of its lower-case name
de_MsgTypes(j) ==
    IF j.t = "str" /\ \E variant \in MsgTypes : MsgTypesTag(variant) = j.s
    THEN Ok(CHOOSE variant \in MsgTypes : MsgTypesTag(variant) = j.s)
    ELSE [ok |-> FALSE, v |-> "Users"]

\* Option<String>: null is None, a string is Some, anything else an error
de_OptionString(j) ==
    CASE j.t = "null" -> Ok(None)
      [] j.t = "str" -> Ok(Some(j.s))
      [] OTHER -> [ok |-> FALSE, v |-> None]

\* Option<Vec<String>>: null is None, an array of strings is Some
de_OptionVecString(j) ==
    CASE j.t = "null" -> Ok(NoneVec)
      [] j.t = "arr" /\ (\A i \in DOMAIN j.items : j.items[i].v.t = "str") ->
            Ok(Some([i \in DOMAIN j.items |-> j.items[i].v.s]))
      [] OTHER -> [ok |-> FALSE, v |-> NoneVec]

\* WebSocketMessage, #[serde(rename_all = "camelCase")]: an object with
\* messageType (required), dataArray and data (a missing Option field is
\* None), unknown keys ignored, a repeated key an error; or an array of the
\* three fields in declaration order
de_WebSocketMessage(j) ==
    CASE j.t = "obj" ->
            LET mt == IF Cardinality(Keys(j, "messageType")) = 1
                      THEN de_MsgTypes(Field(j, "messageType"))
                      ELSE [ok |-> FALSE, v |-> "Users"]
                da == CASE Keys(j, "dataArray") = {} -> Ok(NoneVec)
                        [] Cardinality(Keys(j, "dataArray")) = 1 ->
                              de_OptionVecString(Field(j, "dataArray"))
                        [] OTHER -> [ok |-> FALSE, v |-> NoneVec]
                d == CASE Keys(j, "data") = {} -> Ok(None)
                       [] Cardinality(Keys(j, "data")) = 1 -> de_OptionString(Field(j, "data"))
                       [] OTHER -> [ok |-> FALSE, v |-> None]
            IN  IF mt.ok /\ da.ok /\ d.ok
                THEN Ok(WebSocketMessage(mt.v, da.v, d.v))
                ELSE ErrEnvelope
      [] j.t = "arr" /\ Len(j.items) = 3 ->
            LET mt == de_MsgTypes(j.items[1].v)
                da == de_OptionVecString(j.items[2].v)
                d == de_OptionString(j.items[3].v)
            IN  IF mt.ok /\ da.ok /\ d.ok
                THEN Ok(WebSocketMessage(mt.v, da.v, d.v))
                ELSE ErrEnvelope
      [] OTHER -> ErrEnvelope

\* a MessageData whose second field is named text on the wire
de_MessageData_TextField(j) ==
    CASE j.t = "obj" ->
            IF /\ Cardinality(Keys(j, "from")) = 1
               /\ Cardinality(Keys(j, "text")) = 1
               /\ Field(j, "from").t = "str"
               /\ Field(j, "text").t = "str"
            THEN Ok(MessageData(Field(j, "from").s, Field(j, "text").s))
            ELSE ErrPayload
      [] OTHER -> ErrPayload

\* MessageData: an object with the string fields from and message (both
\* required, unknown keys ignored), or an array of the two
de_MessageData(j) ==
    CASE j.t = "obj" ->
            IF /\ Cardinality(Keys(j, "from")) = 1
               /\ Cardinality(Keys(j, "message")) = 1
               /\ Field(j, "from").t = "str"
               /\ Field(j, "message").t = "str"
            THEN Ok(MessageData(Field(j, "from").s, Field(j, "message").s))
            ELSE ErrPayload
      [] j.t = "arr" /\ Len(j.items) = 2 ->
            IF j.items[1].v.t = "str" /\ j.items[2].v.t = "str"
            THEN Ok(MessageData(j.items[1].v.s, j.items[2].v.s))
            ELSE ErrPayload
      [] OTHER -> ErrPayload

\* serde_json::from_str::<WebSocketMessage>
from_str_WebSocketMessage(s) ==
    LET p == ParseJson(s) IN IF p.ok THEN de_WebSocketMessage(p.j) ELSE ErrEnvelope

\* serde_json::from_str::<MessageData>
from_str_MessageData(s) ==
    LET p == ParseJson(s) IN IF p.ok THEN de_MessageData(p.j) ELSE ErrPayload

\* ----------------------------------------------------- serde: encoding
\* the escaped form of a string inside a JSON string literal; a text
\* without quote, backslash or control character is written as it is
JsonEscape(s) ==
    CASE s = PayAliceHi -> "{\\\"from\\\":\\\"alice\\\",\\\"message\\\":\\\"hi\\\"}"
      [] s = "say \"hi\"" -> "say \\\"hi\\\""
      [] OTHER -> s

JsonQuote(s) == "\"" \o JsonEscape(s) \o "\""

RECURSIVE JsonJoin(_)
JsonJoin(v) ==
    IF v = <<>> THEN ""
    ELSE IF Len(v) = 1 THEN JsonQuote(v[1])
    ELSE JsonQuote(v[1]) \o "," \o JsonJoin(Tail(v))

\* serde_json::to_string(&WebSocketMessage): the fields in declaration
\* order under their camel-case names, None written as null
to_string(msg) ==
    "{\"messageType\":" \o JsonQuote(MsgTypesTag(msg.message_type))
    \o ",\"dataArray\":"
    \o (IF msg.data_array.some THEN "[" \o JsonJoin(msg.data_array.v) \o "]" ELSE "null")
    \o ",\"data\":"
    \o (IF msg.data.some THEN JsonQuote(msg.data.v) ELSE "null")
    \o "}"

\* ---------------------------------------------------------------- inputs
\* the local username the context provides
Usernames == {"carol"}

\* the texts a user types into the input field
Inputs == {"", "hi"}

\* the raw payloads the bridge delivers
Frames ==
    { FrUsersAB, FrUsersB, FrUsersAA, FrUsersAbsent, FrRegister, FrRegisterBoth,
      FrMsgAliceHi, FrMsgAliceGif, FrMsgBobYo,
      FrMsgSpecNamed, FrMsgNoData, FrMsgPlain,
      FrUnknownTag, FrBadType, FrUpperTag, FrSnakeCase, FrGarbage }

\* ----------------------------------------------------------------- state
VARIABLES
    phase,            \* "init" before create, "live", "panicked" after a panic,
                      \* "destroyed" after the component is unmounted
    username,         \* user.username of the context
    users,            \* Chat.users
    messages,         \* Chat.messages
    chat_input,       \* Chat.chat_input: is the element bound, and its value
    render_pending,   \* update returned true (or first render) and view is due
    ret,              \* what the last call of update returned
    attempts,         \* history: the try_send calls on wss.tx and their outcome
    debug_log,        \* history: the lines written with log::debug!
    handled,          \* history: the payloads passed to update(HandleMsg)
    submits,          \* history: number of SubmitMessage events handled
    producer,         \* Chat._producer: "none", "bridged", "leaked", "released"
    rendered,         \* the message list as view last rendered it
    codec             \* the codec check: an envelope, its wire text, its decoding

chat_vars == <<phase, username, users, messages, chat_input, render_pending, ret,
               attempts, debug_log, handled, submits, producer, rendered>>

vars == <<chat_vars, codec>>

\* no codec check is running
CodecIdle ==
    [stage |-> "idle", env |-> WebSocketMessage("Users", NoneVec, None), wire |-> "",
     out |-> ErrEnvelope]

InitChat ==
    /\ phase = "init"
    /\ username \in Usernames
    /\ users = <<>>
    /\ messages = <<>>
    /\ chat_input = [mounted |-> FALSE, value |-> ""]
    /\ render_pending = FALSE
    /\ ret = "none"
    /\ attempts = <<>>
    /\ debug_log = <<>>
    /\ handled = <<>>
    /\ submits = 0
    /\ producer = "none"
    /\ rendered = <<>>

Init == InitChat /\ codec = CodecIdle

\* format!("https://avatars.dicebear.com/api/adventurer-neutral/{}.svg", u)
AvatarUrl(u) == "https://avatars.dicebear.com/api/adventurer-neutral/" \o u \o ".svg"

\* a Users arm that collects the profiles in reverse order
ProfilesOf_Reversed(names) ==
    [i \in DOMAIN names |->
        UserProfile(names[Len(names) + 1 - i], AvatarUrl(names[Len(names) + 1 - i]))]

\* the Users arm: one profile per name, in order
ProfilesOf(names) == [i \in DOMAIN names |-> UserProfile(names[i], AvatarUrl(names[i]))]

\* Option::unwrap_or_default on data_array
unwrap_or_default(o) == IF o.some THEN o.v ELSE <<>>

\* a push that puts the new element in front
push_Front(v, x) == <<x>> \o v

\* Vec::push
push(v, x) == Append(v, x)

\* the frame create builds for the local username
RegisterFrame(name) == WebSocketMessage("Register", NoneVec, Some(name))

\* a submit frame tagged Register
SubmitFrame_Register(value) == WebSocketMessage("Register", NoneVec, Some(value))

\* the frame update(SubmitMessage) builds for the value of the input
SubmitFrame(value) == WebSocketMessage("Message", NoneVec, Some(value))

\* wss.tx.try_send: Ok (TRUE) when the channel takes the text, Err (FALSE)
\* when it is full or closed
TrySendResults == BOOLEAN

\* a create that leaks the bridge instead of keeping it in the component
create_LeakedProducer ==
    /\ phase = "init"
    /\ \E ok \in TrySendResults :
         LET message == RegisterFrame(username)
         IN  /\ attempts' = <<[text |-> to_string(message), ok |-> ok]>>
             /\ debug_log' = IF ok THEN <<"message sent successfully">> ELSE <<>>
    /\ users' = <<>>
    /\ messages' = <<>>
    /\ chat_input' = [mounted |-> FALSE, value |-> ""]
    /\ render_pending' = TRUE
    /\ producer' = "leaked"
    /\ phase' = "live"
    /\ rendered' = <<>>
    /\ UNCHANGED <<username, codec, ret, handled, submits>>

\* Chat::create: build and try to send the Register frame, start empty,
\* keep the bridge to the event bus in _producer; the first render follows
create ==
    /\ phase = "init"
    /\ \E ok \in TrySendResults :
         LET message == RegisterFrame(username)
         IN  /\ attempts' = <<[text |-> to_string(message), ok |-> ok]>>
             /\ debug_log' = IF ok THEN <<"message sent successfully">> ELSE <<>>
    /\ users' = <<>>
    /\ messages' = <<>>
    /\ chat_input' = [mounted |-> FALSE, value |-> ""]
    /\ render_pending' = TRUE
    /\ producer' = "bridged"
    /\ phase' = "live"
    /\ rendered' = <<>>
    /\ UNCHANGED <<username, codec, ret, handled, submits>>

\* a panic inside update or view: the call does not return
Panic ==
    /\ phase' = "panicked"
    /\ ret' = "none"
    /\ UNCHANGED <<username, rendered, codec, producer, users, messages,
                   chat_input, render_pending, attempts, debug_log, submits>>

\* arms whose Users arm unwraps data_array
HandleDecoded_UnwrapArray(msg) ==
    CASE msg.message_type = "Users" ->
            IF msg.data_array.some
            THEN /\ users' = ProfilesOf(msg.data_array.v)
                 /\ ret' = "true"
                 /\ render_pending' = TRUE
                 /\ UNCHANGED <<phase, username, rendered, codec, producer,
                                messages, chat_input, attempts, debug_log,
                                submits>>
            ELSE Panic
      [] msg.message_type = "Message" ->
            IF msg.data.some /\ from_str_MessageData(msg.data.v).ok
            THEN /\ messages' = push(messages, from_str_MessageData(msg.data.v).v)
                 /\ ret' = "true"
                 /\ render_pending' = TRUE
                 /\ UNCHANGED <<phase, username, rendered, codec, producer,
                                users, chat_input, attempts, debug_log,
                                submits>>
            ELSE Panic
      [] OTHER ->
            /\ ret' = "false"
            /\ UNCHANGED <<phase, username, rendered, codec, producer, users,
                           messages, chat_input, render_pending, attempts,
                           debug_log, submits>>

\* arms where a Register envelope falls into the Users arm
HandleDecoded_RegisterAsUsers(msg) ==
    CASE msg.message_type \in {"Users", "Register"} ->
            /\ users' = ProfilesOf(unwrap_or_default(msg.data_array))
            /\ ret' = "true"
            /\ render_pending' = TRUE
            /\ UNCHANGED <<phase, username, rendered, codec, producer, messages,
                           chat_input, attempts, debug_log, submits>>
      [] msg.message_type = "Message" ->
            IF msg.data.some /\ from_str_MessageData(msg.data.v).ok
            THEN /\ messages' = push(messages, from_str_MessageData(msg.data.v).v)
                 /\ ret' = "true"
                 /\ render_pending' = TRUE
                 /\ UNCHANGED <<phase, username, rendered, codec, producer,
                                users, chat_input, attempts, debug_log,
                                submits>>
            ELSE Panic

\* arms whose Users arm adds the received profiles to the roster
HandleDecoded_UsersAppend(msg) ==
    CASE msg.message_type = "Users" ->
            /\ users' = users \o ProfilesOf(unwrap_or_default(msg.data_array))
            /\ ret' = "true"
            /\ render_pending' = TRUE
            /\ UNCHANGED <<phase, username, rendered, codec, producer, messages,
                           chat_input, attempts, debug_log, submits>>
      [] msg.message_type = "Message" ->
            IF msg.data.some /\ from_str_MessageData(msg.data.v).ok
            THEN /\ messages' = push(messages, from_str_MessageData(msg.data.v).v)
                 /\ ret' = "true"
                 /\ render_pending' = TRUE
                 /\ UNCHANGED <<phase, username, rendered, codec, producer,
                                users, chat_input, attempts, debug_log,
                                submits>>
            ELSE Panic
      [] OTHER ->
            /\ ret' = "false"
            /\ UNCHANGED <<phase, username, rendered, codec, producer, users,
                           messages, chat_input, render_pending, attempts,
                           debug_log, submits>>

\* arms whose Users arm also drops the logged messages of absent senders
HandleDecoded_UsersPrunesLog(msg) ==
    CASE msg.message_type = "Users" ->
            /\ users' = ProfilesOf(unwrap_or_default(msg.data_array))
            /\ messages' = SelectSeq(messages,
                    LAMBDA m : \E i \in DOMAIN unwrap_or_default(msg.data_array) :
                                  unwrap_or_default(msg.data_array)[i] = m.from)
            /\ ret' = "true"
            /\ render_pending' = TRUE
            /\ UNCHANGED <<phase, username, rendered, codec, producer,
                           chat_input, attempts, debug_log, submits>>
      [] msg.message_type = "Message" ->
            IF msg.data.some /\ from_str_MessageData(msg.data.v).ok
            THEN /\ messages' = push(messages, from_str_MessageData(msg.data.v).v)
                 /\ ret' = "true"
                 /\ render_pending' = TRUE
                 /\ UNCHANGED <<phase, username, rendered, codec, producer,
                                users, chat_input, attempts, debug_log,
                                submits>>
            ELSE Panic
      [] OTHER ->
            /\ ret' = "false"
            /\ UNCHANGED <<phase, username, rendered, codec, producer, users,
                           messages, chat_input, render_pending, attempts,
                           debug_log, submits>>

\* the arms of update(HandleMsg) once the envelope is decoded
HandleDecoded(msg) ==
    CASE msg.message_type = "Users" ->
            /\ users' = ProfilesOf(unwrap_or_default(msg.data_array))
            /\ ret' = "true"
            /\ render_pending' = TRUE
            /\ UNCHANGED <<phase, username, rendered, codec, producer, messages,
                           chat_input, attempts, debug_log, submits>>
      [] msg.message_type = "Message" ->
            IF msg.data.some /\ from_str_MessageData(msg.data.v).ok
            THEN /\ messages' = push(messages, from_str_MessageData(msg.data.v).v)
                 /\ ret' = "true"
                 /\ render_pending' = TRUE
                 /\ UNCHANGED <<phase, username, rendered, codec, producer,
                                users, chat_input, attempts, debug_log,
                                submits>>
            ELSE Panic
      [] OTHER ->
            /\ ret' = "false"
            /\ UNCHANGED <<phase, username, rendered, codec, producer, users,
                           messages, chat_input, render_pending, attempts,
                           debug_log, submits>>

\* Chat::update, Msg::HandleMsg(s)
update_HandleMsg(s) ==
    /\ phase = "live"
    /\ Len(handled) < MaxFrames
    /\ handled' = Append(handled, s)
    /\ LET r == from_str_WebSocketMessage(s)
       IN  IF r.ok THEN HandleDecoded(r.v) ELSE Panic

\* a SubmitMessage that also appends the text to the local log
update_SubmitMessage_Optimistic ==
    /\ phase = "live"
    /\ submits < MaxSubmits
    /\ submits' = submits + 1
    /\ IF chat_input.mounted
       THEN \E ok \in TrySendResults :
              LET message == SubmitFrame(chat_input.value)
              IN  /\ attempts' = Append(attempts, [text |-> to_string(message), ok |-> ok])
                  /\ debug_log' = IF ok THEN debug_log
                                  ELSE Append(debug_log, "error sending to channel")
                  /\ messages' = push(messages, MessageData(username, chat_input.value))
                  /\ chat_input' = [chat_input EXCEPT !.value = ""]
       ELSE UNCHANGED <<attempts, debug_log, chat_input, messages>>
    /\ ret' = "false"
    /\ UNCHANGED <<phase, username, rendered, codec, producer, users,
                   render_pending, handled>>

\* a SubmitMessage that does not send an empty input
update_SubmitMessage_SkipEmpty ==
    /\ phase = "live"
    /\ submits < MaxSubmits
    /\ submits' = submits + 1
    /\ IF chat_input.mounted /\ chat_input.value # ""
       THEN \E ok \in TrySendResults :
              LET message == SubmitFrame(chat_input.value)
              IN  /\ attempts' = Append(attempts, [text |-> to_string(message), ok |-> ok])
                  /\ debug_log' = IF ok THEN debug_log
                                  ELSE Append(debug_log, "error sending to channel")
                  /\ chat_input' = [chat_input EXCEPT !.value = ""]
       ELSE UNCHANGED <<attempts, debug_log, chat_input>>
    /\ ret' = "false"
    /\ UNCHANGED <<phase, username, rendered, codec, producer, users, messages,
                   render_pending, handled>>

\* a SubmitMessage that clears the input only when the send succeeded
update_SubmitMessage_ClearOnSuccess ==
    /\ phase = "live"
    /\ submits < MaxSubmits
    /\ submits' = submits + 1
    /\ IF chat_input.mounted
       THEN \E ok \in TrySendResults :
              LET message == SubmitFrame(chat_input.value)
              IN  /\ attempts' = Append(attempts, [text |-> to_string(message), ok |-> ok])
                  /\ debug_log' = IF ok THEN debug_log
                                  ELSE Append(debug_log, "error sending to channel")
                  /\ chat_input' = IF ok THEN [chat_input EXCEPT !.value = ""]
                                   ELSE chat_input
       ELSE UNCHANGED <<attempts, debug_log, chat_input>>
    /\ ret' = "false"
    /\ UNCHANGED <<phase, username, rendered, codec, producer, users, messages,
                   render_pending, handled>>

\* a SubmitMessage that sends the frame a second time when the send failed
update_SubmitMessage_Retry ==
    /\ phase = "live"
    /\ submits < MaxSubmits
    /\ submits' = submits + 1
    /\ IF chat_input.mounted
       THEN \E ok \in TrySendResults :
              LET message == SubmitFrame(chat_input.value)
              IN  /\ attempts' =
                       IF ok
                       THEN Append(attempts, [text |-> to_string(message), ok |-> ok])
                       ELSE attempts \o <<[text |-> to_string(message), ok |-> FALSE],
                                         [text |-> to_string(message), ok |-> FALSE]>>
                  /\ debug_log' = IF ok THEN debug_log
                                  ELSE Append(debug_log, "error sending to channel")
                  /\ chat_input' = [chat_input EXCEPT !.value = ""]
       ELSE UNCHANGED <<attempts, debug_log, chat_input>>
    /\ ret' = "false"
    /\ UNCHANGED <<phase, username, rendered, codec, producer, users, messages,
                   render_pending, handled>>

\* Chat::update, Msg::SubmitMessage
update_SubmitMessage ==
    /\ phase = "live"
    /\ submits < MaxSubmits
    /\ submits' = submits + 1
    /\ IF chat_input.mounted
       THEN \E ok \in TrySendResults :
              LET message == SubmitFrame(chat_input.value)
              IN  /\ attempts' = Append(attempts, [text |-> to_string(message), ok |-> ok])
                  /\ debug_log' = IF ok THEN debug_log
                                  ELSE Append(debug_log, "error sending to channel")
                  /\ chat_input' = [chat_input EXCEPT !.value = ""]
       ELSE UNCHANGED <<attempts, debug_log, chat_input>>
    /\ ret' = "false"
    /\ UNCHANGED <<phase, username, rendered, codec, producer, users, messages,
                   render_pending, handled>>

\* the sender lookup of view: self.users.iter().find(|u| u.name == m.from)
FindUser(from) == {i \in DOMAIN users : users[i].name = from}

\* a suffix test that looks at the start of the text
ends_with_AtStart(s, suffix) ==
    Len(s) >= Len(suffix) /\ SubSeq(s, 1, Len(suffix)) = suffix

\* str::ends_with
ends_with(s, suffix) ==
    Len(s) >= Len(suffix) /\ SubSeq(s, Len(s) - Len(suffix) + 1, Len(s)) = suffix

\* what view renders for a log entry whose sender is in the roster: the
\* bubble class, the avatar of the first profile of that name, the sender,
\* and the text as an image when it ends with ".gif", as text otherwise
RenderMessage(m) ==
    LET user == users[CHOOSE i \in FindUser(m.from) : \A k \in FindUser(m.from) : i <= k]
    IN  [class |-> IF m.from = "You" THEN "bg-red-100" ELSE "bg-green-100",
         avatar |-> user.avatar,
         from |-> m.from,
         kind |-> IF ends_with(m.message, ".gif") THEN "img" ELSE "text",
         body |-> m.message]

\* Chat::view, run when a render is due: every logged message looks its
\* sender up in the roster and unwraps; the render binds the input element
view ==
    /\ phase = "live"
    /\ render_pending
    /\ IF \A i \in DOMAIN messages : FindUser(messages[i].from) # {}
       THEN /\ render_pending' = FALSE
            /\ chat_input' = [chat_input EXCEPT !.mounted = TRUE]
            /\ rendered' = [i \in DOMAIN messages |-> RenderMessage(messages[i])]
            /\ UNCHANGED <<phase, username, codec, producer, users, messages,
                           ret, attempts, debug_log, submits>>
       ELSE Panic
    /\ UNCHANGED handled

\* the user edits the input field
TypeInput(text) ==
    /\ phase = "live"
    /\ chat_input.mounted
    /\ chat_input.value # text
    /\ chat_input' = [chat_input EXCEPT !.value = text]
    /\ UNCHANGED <<phase, username, rendered, codec, producer, users, messages,
                   render_pending, ret, attempts, debug_log, handled, submits>>

\* the component is unmounted: Chat is dropped and its fields with it, the
\* bridge in _producer among them; a bridge the component does not own stays
destroy ==
    /\ phase = "live"
    /\ phase' = "destroyed"
    /\ producer' = IF producer = "bridged" THEN "released" ELSE producer
    /\ UNCHANGED <<username, rendered, codec, users, messages, chat_input,
                   render_pending, ret, attempts, debug_log, handled, submits>>

\* the event bus calls the callback of a bridge for as long as the bridge is
\* not released
BridgeDelivers == producer \in {"bridged", "leaked"}

Next ==
    \/ create
    \/ \E s \in Frames : BridgeDelivers /\ update_HandleMsg(s)
    \/ update_SubmitMessage
    \/ view
    \/ \E text \in Inputs : TypeInput(text)
    \/ destroy

Spec == Init /\ [][Next]_vars

\* ---------------------------------------------------------- codec check
\* the envelopes of the codec check: every message type, dataArray absent,
\* empty or filled, data absent, empty, plain or with characters to escape
Envelopes ==
    { WebSocketMessage(t, a, d) :
        t \in MsgTypes,
        a \in {NoneVec, Some(<<>>), Some(<<"alice", "bob">>)},
        d \in {None, Some(""), Some("hi"), Some("say \"hi\"")} }

InitCodec ==
    /\ InitChat
    /\ codec \in { [stage |-> "value", env |-> e, wire |-> "", out |-> ErrEnvelope] :
                     e \in Envelopes }

\* serde_json::to_string of the envelope
codec_encode ==
    /\ codec.stage = "value"
    /\ codec' = [codec EXCEPT !.stage = "encoded", !.wire = to_string(codec.env)]
    /\ UNCHANGED chat_vars

\* serde_json::from_str of the wire text
codec_decode ==
    /\ codec.stage = "encoded"
    /\ codec' = [codec EXCEPT !.stage = "decoded",
                              !.out = from_str_WebSocketMessage(codec.wire)]
    /\ UNCHANGED chat_vars

NextCodec ==
    \/ codec_encode
    \/ codec_decode

SpecCodec == InitCodec /\ [][NextCodec]_vars

TypeOK ==
    /\ phase \in {"init", "live", "panicked", "destroyed"}
    /\ producer \in {"none", "bridged", "leaked", "released"}
    /\ ret \in {"none", "true", "false"}
    /\ render_pending \in BOOLEAN
    /\ Len(handled) <= MaxFrames
    /\ submits <= MaxSubmits

\* ================================================================ claims
Last(h) == h[Len(h)]

IsPrefix(a, b) == Len(a) <= Len(b) /\ SubSeq(b, 1, Len(a)) = a

\* the profile the specification expects for a name
SpecProfile(n) ==
    CASE n = "alice" ->
            [name |-> "alice",
             avatar |-> "https://avatars.dicebear.com/api/adventurer-neutral/alice.svg"]
      [] n = "bob" ->
            [name |-> "bob",
             avatar |-> "https://avatars.dicebear.com/api/adventurer-neutral/bob.svg"]

\* the names a Users frame of the model carries
NamesOf(frame) ==
    CASE frame = FrUsersAB -> <<"alice", "bob">>
      [] frame = FrUsersB -> <<"bob">>
      [] frame = FrUsersAA -> <<"alice", "alice">>

UsersFramesWithArray == {FrUsersAB, FrUsersB, FrUsersAA}

\* C1: handling a Users envelope with dataArray [n1..nk], from any roster
\* and any log, leaves the roster equal to [profile(n1)..profile(nk)], same
\* order, same length, duplicates kept, and update returns true.
C1_UsersReplacesRoster ==
    [][\A s \in UsersFramesWithArray :
          update_HandleMsg(s) =>
              /\ Len(users') = Len(NamesOf(s))
              /\ \A i \in 1..Len(NamesOf(s)) : users'[i] = SpecProfile(NamesOf(s)[i])
              /\ ret' = "true"
              /\ phase' = "live"]_vars

\* a roster with a duplicate has replaced a different, non-empty one while
\* the log is not empty
C1_Witness ==
    /\ Len(handled) = 3
    /\ handled[1] = FrUsersAB
    /\ handled[3] = FrUsersAA
    /\ messages # <<>>
    /\ users = <<SpecProfile("alice"), SpecProfile("alice")>>

\* the log entry the specification expects for a Message frame with a valid
\* payload; other frames add nothing
PayloadOf(frame) ==
    CASE frame = FrMsgAliceHi -> <<[from |-> "alice", message |-> "hi"]>>
      [] frame = FrMsgAliceGif -> <<[from |-> "alice", message |-> "cat.gif"]>>
      [] frame = FrMsgBobYo -> <<[from |-> "bob", message |-> "yo"]>>
      [] OTHER -> <<>>

RECURSIVE Payloads(_)
Payloads(h) == IF h = <<>> THEN <<>> ELSE PayloadOf(Head(h)) \o Payloads(Tail(h))

ValidFrames ==
    {FrUsersAB, FrUsersB, FrUsersAA, FrUsersAbsent, FrMsgAliceHi, FrMsgAliceGif, FrMsgBobYo}

\* C2: after any delivered sequence of Users envelopes and Message
\* envelopes with valid payloads, the log is the payloads of the Message
\* envelopes in delivery order; and no step removes, reorders or rewrites an
\* entry: every step leaves the old log a prefix of the new one.
C2_LogAppendOnly ==
    /\ []((\A i \in DOMAIN handled : handled[i] \in ValidFrames)
             => messages = Payloads(handled))
    /\ [][IsPrefix(messages, messages')]_vars

\* two messages logged in arrival order with a roster replacement between
C2_Witness ==
    /\ handled = <<FrMsgAliceGif, FrUsersAB, FrMsgAliceHi>>
    /\ messages = <<[from |-> "alice", message |-> "cat.gif"],
                    [from |-> "alice", message |-> "hi"]>>

\* the frames that do not decode as a WebSocketMessage: not JSON, an
\* unknown or wrongly cased tag, a field of the wrong type, wrong field names
MalformedEnvelopes == {FrGarbage, FrUnknownTag, FrUpperTag, FrBadType, FrSnakeCase}

\* C3: handling a payload that does not decode as an envelope leaves the
\* roster and the log as they were, returns false, and the session goes on
\* (the error is a value, the reducer is not aborted).
C3_MalformedEnvelopeDropped ==
    [][\A s \in MalformedEnvelopes :
          update_HandleMsg(s) =>
              /\ users' = users
              /\ messages' = messages
              /\ ret' = "false"
              /\ phase' = "live"]_vars

\* the Message frames whose data is absent or is not a ChatMessage
MalformedPayloads == {FrMsgNoData, FrMsgPlain}

\* C4: a Message envelope with data absent or undecodable appends nothing,
\* leaves the roster alone and does not terminate the session.
C4_MalformedPayloadSignalled ==
    [][\A s \in MalformedPayloads :
          update_HandleMsg(s) =>
              /\ messages' = messages
              /\ users' = users
              /\ phase' = "live"]_vars

\* C5: rendering the message list does not fail in any reachable state, also
\* when a log entry's sender is not in the current roster.
C5_RenderNeverFails == [][view => phase' = "live"]_vars

\* C6: no error condition terminates the session: whatever was delivered or
\* submitted before, a valid Users envelope delivered next is still reduced.
C6_SessionStaysLive ==
    (phase \notin {"init", "destroyed"} /\ Len(handled) < MaxFrames)
        => ENABLED update_HandleMsg(FrUsersAB)

\* C7 as the specification words it: from the empty state, Users[alice,bob]
\* gives the two profiles, and the Message envelope whose payload is
\* {from:"alice", text:"hi"} is accepted and gives a log of that one entry.
C7_ScenarioSpecNames ==
    /\ handled = <<FrUsersAB>> =>
          users = <<SpecProfile("alice"), SpecProfile("bob")>>
    /\ handled = <<FrUsersAB, FrMsgSpecNamed>> =>
          /\ phase # "panicked"
          /\ Len(messages) = 1
          /\ messages[1].from = "alice"
          /\ messages[1].message = "hi"

\* C7: from the empty state, Users[alice,bob] gives the two profiles; then
\* the Message envelope with payload {from:"alice", message:"hi"} gives a log
\* of that one entry; then the one with {from:"alice", message:"cat.gif"}
\* gives a log of the two entries in that order.  The payload's fields are
\* from and message; a payload naming the second field text is rejected.
C7_ScenarioCodeNames ==
    /\ handled = <<FrUsersAB>> =>
          /\ users = <<SpecProfile("alice"), SpecProfile("bob")>>
          /\ messages = <<>>
          /\ phase # "panicked"
    /\ handled = <<FrUsersAB, FrMsgAliceHi>> =>
          /\ messages = <<[from |-> "alice", message |-> "hi"]>>
          /\ phase # "panicked"
    /\ handled = <<FrUsersAB, FrMsgAliceHi, FrMsgAliceGif>> =>
          /\ messages = <<[from |-> "alice", message |-> "hi"],
                          [from |-> "alice", message |-> "cat.gif"]>>
          /\ users = <<SpecProfile("alice"), SpecProfile("bob")>>
          /\ phase # "panicked"
    /\ (handled # <<>> /\ Last(handled) = FrMsgSpecNamed) =>
          /\ phase = "panicked"
          /\ messages = Payloads(handled)

\* the three frames of the scenario reduced and rendered
C7_Witness ==
    /\ handled = <<FrUsersAB, FrMsgAliceHi, FrMsgAliceGif>>
    /\ Len(messages) = 2
    /\ ~render_pending

\* the texts that decode to a Register envelope carrying exactly the name u
RegisterTextsOf ==
    [u \in Usernames |->
        {p[1] : p \in {q \in JsonTexts :
            from_str_WebSocketMessage(q[1])
              = [ok |-> TRUE,
                 v |-> [message_type |-> "Register",
                        data_array |-> [some |-> FALSE, v |-> <<>>],
                        data |-> [some |-> TRUE, v |-> u]]]}}]

\* the texts that decode to a Message envelope
MessageTexts ==
    {p[1] : p \in {q \in JsonTexts :
        /\ from_str_WebSocketMessage(q[1]).ok
        /\ from_str_WebSocketMessage(q[1]).v.message_type = "Message"}}

\* C8: the Register frame is handed to the transport once, in create, before
\* any inbound frame is handled: it is the first send, it decodes to
\* messageType Register, data = the local username, dataArray absent, and
\* every later send is a Message frame.
C8_RegisterOnceAtStart ==
    /\ phase = "init" => attempts = <<>> /\ handled = <<>>
    /\ phase # "init" =>
          /\ Len(attempts) >= 1
          /\ username = "carol" => attempts[1].text = OutRegisterCarol
          /\ username \in DOMAIN RegisterTextsOf
          /\ attempts[1].text \in RegisterTextsOf[username]
          /\ \A i \in 2..Len(attempts) : attempts[i].text \in MessageTexts

\* a submit has sent a second frame after an inbound frame was handled
C8_Witness ==
    /\ phase = "live"
    /\ Len(attempts) = 2
    /\ handled # <<>>

\* C9: update(SubmitMessage) changes neither the roster nor the log and
\* returns false, whether the send succeeds or fails; the log grows only
\* when an inbound frame is handled.
C9_SubmitNoLocalMutation ==
    [][/\ submits' # submits =>
             /\ users' = users
             /\ messages' = messages
             /\ ret' = "false"
             /\ phase' = "live"
       /\ messages' # messages => handled' # handled]_vars

\* a submit whose send failed, with a log that is not empty
C9_Witness ==
    /\ submits = 1
    /\ Len(attempts) = 2
    /\ ~attempts[2].ok
    /\ messages # <<>>
    /\ ret = "false"

\* C10: every failed send, of the Register frame or of a Message frame, is
\* logged; there is at most one send per user action; a failed send changes
\* neither the roster nor the log and does not end the session.
C10_SendFailureLogged ==
    /\ [](/\ Cardinality({i \in DOMAIN attempts : ~attempts[i].ok})
               = Cardinality({i \in DOMAIN debug_log :
                                 debug_log[i] # "message sent successfully"})
          /\ Len(attempts) <= 1 + submits)
    /\ [][(Len(attempts') > Len(attempts) /\ ~Last(attempts').ok) =>
             /\ users' = users
             /\ messages' = messages
             /\ phase' = "live"]_vars
\* C11: a Users envelope without dataArray is an empty roster, not an error:
\* from any state the roster becomes empty, the log is unchanged and update
\* returns true.
C11_AbsentArrayEmptiesRoster ==
    [][update_HandleMsg(FrUsersAbsent) =>
          /\ users' = <<>>
          /\ messages' = messages
          /\ ret' = "true"
          /\ phase' = "live"]_vars

\* a Users envelope without dataArray has emptied a roster of two, with a
\* message in the log
C11_Witness ==
    /\ handled = <<FrUsersAB, FrMsgAliceHi, FrUsersAbsent>>
    /\ users = <<>>
    /\ Len(messages) = 1
    /\ ret = "true"
\* the inbound Register envelopes: with data only, with data and dataArray
RegisterFrames == {FrRegister, FrRegisterBoth}

\* C12: an inbound Register envelope is a no-op whatever its fields hold:
\* roster and log unchanged, nothing sent, no render requested, update
\* returns false.
C12_InboundRegisterNoOp ==
    [][\A s \in RegisterFrames :
          update_HandleMsg(s) =>
              /\ users' = users
              /\ messages' = messages
              /\ attempts' = attempts
              /\ debug_log' = debug_log
              /\ chat_input' = chat_input
              /\ render_pending' = render_pending
              /\ ret' = "false"
              /\ phase' = "live"]_vars

\* a Register envelope carrying a dataArray was handled after a roster and a
\* message, and left both
C12_Witness ==
    /\ handled = <<FrUsersAB, FrMsgAliceHi, FrRegisterBoth>>
    /\ Len(users) = 2
    /\ Len(messages) = 1
    /\ ret = "false"
\* the Users envelopes of the model
UsersFrames == {FrUsersAB, FrUsersB, FrUsersAA, FrUsersAbsent}

\* the roster the specification expects after a Users envelope
RosterOf(frame) ==
    IF frame = FrUsersAbsent THEN <<>>
    ELSE [i \in DOMAIN NamesOf(frame) |-> SpecProfile(NamesOf(frame)[i])]

\* the roster the most recent Users envelope of a delivery history determines
RECURSIVE RosterAfter(_)
RosterAfter(h) ==
    IF h = <<>> THEN <<>>
    ELSE IF Last(h) \in UsersFrames THEN RosterOf(Last(h))
    ELSE RosterAfter(SubSeq(h, 1, Len(h) - 1))

\* C13: the roster depends only on the most recent Users envelope delivered
\* (empty when there is none), and handling the same Users envelope a second
\* time in a row leaves the roster as the first application left it.
C13_RosterIdempotent ==
    /\ [](users = RosterAfter(handled))
    /\ [][\A s \in UsersFrames :
            (handled # <<>> /\ Last(handled) = s /\ update_HandleMsg(s)) => users' = users]_vars

\* the same Users envelope handled twice in a row
C13_Witness ==
    /\ Len(handled) = 3
    /\ handled[2] = FrUsersAB
    /\ handled[3] = FrUsersAB
    /\ handled[1] = FrUsersB
    /\ users = <<SpecProfile("alice"), SpecProfile("bob")>>
\* the wire text the specification expects for a submitted input
ExpectedSubmitText(value) ==
    CASE value = "" -> OutMsgEmpty
      [] value = "hi" -> OutMsgHi
      [] value = "cat.gif" -> OutMsgGif

\* C14: a SubmitMessage handled with the input element present makes one
\* send whose frame has messageType Message, data = the input text as it
\* is, dataArray absent; the empty input is sent like any other.
C14_SubmitFrameVerbatim ==
    [][(submits' # submits /\ chat_input.mounted) =>
          /\ Len(attempts') = Len(attempts) + 1
          /\ Last(attempts').text = ExpectedSubmitText(chat_input.value)
          /\ from_str_WebSocketMessage(Last(attempts').text)
                = [ok |-> TRUE,
                   v |-> [message_type |-> "Message",
                          data_array |-> [some |-> FALSE, v |-> <<>>],
                          data |-> [some |-> TRUE, v |-> chat_input.value]]]]_vars

\* an empty input was submitted and its frame handed to the transport
C14_Witness ==
    /\ submits = 1
    /\ Len(attempts) = 2
    /\ attempts[2].text = OutMsgEmpty
\* C15: the bridge subscription lives exactly as long as the component: it
\* is held while the component is mounted, released when the component is
\* torn down, and after the teardown no inbound event reaches update or
\* changes the roster or the log.
C15_SubscriptionScoped ==
    /\ [](/\ phase = "init" => producer = "none"
          /\ phase \in {"live", "panicked"} => producer = "bridged"
          /\ phase = "destroyed" => producer = "released" /\ ~BridgeDelivers)
    /\ [][phase = "destroyed" =>
             /\ handled' = handled
             /\ users' = users
             /\ messages' = messages]_vars

\* the component was torn down after it had reduced frames
C15_Witness ==
    /\ phase = "destroyed"
    /\ producer = "released"
    /\ users # <<>>
    /\ messages # <<>>
    /\ Len(handled) < MaxFrames
\* the wire tag the specification fixes for each message type
WireTag(t) ==
    CASE t = "Users" -> "users"
      [] t = "Register" -> "register"
      [] t = "Message" -> "message"

\* C16: every envelope decodes from its encoding to itself, and the
\* encoding is a JSON object with the members messageType, dataArray and
\* data (camel case) whose messageType is the lower-case tag.
C16_EnvelopeRoundTrip ==
    /\ codec.stage = "decoded" => codec.out = [ok |-> TRUE, v |-> codec.env]
    /\ codec.stage \in {"encoded", "decoded"} =>
          /\ ParseJson(codec.wire).ok
          /\ LET j == ParseJson(codec.wire).j
             IN  /\ j.t = "obj"
                 /\ Len(j.items) = 3
                 /\ j.items[1].k = "messageType"
                 /\ j.items[2].k = "dataArray"
                 /\ j.items[3].k = "data"
                 /\ j.items[1].v = JStr(WireTag(codec.env.message_type))

\* a Users envelope with both fields filled, one needing escapes, came back
C16_Witness ==
    /\ codec.stage = "decoded"
    /\ codec.out.ok
    /\ codec.env.message_type = "Users"
    /\ codec.env.data_array = [some |-> TRUE, v |-> <<"alice", "bob">>]
    /\ codec.env.data = [some |-> TRUE, v |-> "say \"hi\""]
\* the texts of the model that end with ".gif"
GifTexts == {"cat.gif"}

\* C17: a rendered log entry is an inline image exactly when its text ends
\* with ".gif" and plain text otherwise, with the text as its content; the
\* log entry itself holds the sender and the text and nothing else.
C17_GifRuleDerived ==
    /\ Len(rendered) <= Len(messages)
    /\ \A i \in DOMAIN rendered :
          /\ rendered[i].kind = (IF messages[i].message \in GifTexts THEN "img" ELSE "text")
          /\ rendered[i].body = messages[i].message
          /\ rendered[i].from = messages[i].from
    /\ \A i \in DOMAIN messages : DOMAIN messages[i] = {"from", "message"}

\* a text and a .gif message rendered, the first as text, the second as image
C17_Witness ==
    /\ Len(rendered) = 2
    /\ rendered[1].kind = "text"
    /\ rendered[2].kind = "img"
    /\ rendered[2].body = "cat.gif"
\* C18: a SubmitMessage handled with the input element present leaves the
\* input field empty, whether the send succeeded or failed.
C18_InputClearedAfterSubmit ==
    [][(submits' # submits /\ chat_input.mounted) =>
          /\ chat_input'.value = ""
          /\ chat_input'.mounted
          /\ Len(attempts') = Len(attempts) + 1]_vars

\* the send of "hi" failed and the input field is empty
C18_Witness ==
    /\ submits = 1
    /\ Len(attempts) = 2
    /\ attempts[2].text = OutMsgHi
    /\ ~attempts[2].ok
    /\ chat_input.mounted
    /\ chat_input.value = ""

ValidMessageFrames == {FrMsgAliceHi, FrMsgAliceGif, FrMsgBobYo}

\* C20: a valid Message envelope appends exactly one entry to the log and
\* leaves the roster as it is, also when the sender is not in the roster; a
\* Users envelope leaves the log as it is, also when it drops the sender of
\* a logged message.
C20_RosterLogIndependent ==
    [][/\ \A s \in ValidMessageFrames :
             update_HandleMsg(s) =>
                 /\ Len(messages') = Len(messages) + 1
                 /\ SubSeq(messages', 1, Len(messages)) = messages
                 /\ users' = users
       /\ \A s \in UsersFrames :
             update_HandleMsg(s) => messages' = messages]_vars

\* bob's message was logged while the roster held only alice, then a Users
\* envelope emptied the roster: the log still holds bob's message
C20_Witness ==
    /\ handled = <<FrUsersAA, FrMsgBobYo, FrUsersAbsent>>
    /\ messages = <<[from |-> "bob", message |-> "yo"]>>
    /\ users = <<>>
====
